---- MODULE Spec2Model ----
(***************************************************************************)
(* Model of three yt-dlp extractors:                                       *)
(*   yt_dlp/extractor/librofm.py       LibroFmIE            (audiobooks)   *)
(*   yt_dlp/extractor/extrememusic.py  ExtremeMusicAlbumIE  (albums)       *)
(*   yt_dlp/extractor/ruutu.py         RuutuIE              (videos)       *)
(*                                                                         *)
(* Representation.  A Python str is a sequence of one-character strings,   *)
(* so that the regular expressions of the source act on characters.        *)
(* An ASCII character is the string of that character, any other           *)
(* character the string "U+" followed by its code point in hexadecimal,    *)
(* "U+0663" for ARABIC-INDIC DIGIT THREE.  Python's None is the            *)
(* one-element sequence None below; no str equals it because no character  *)
(* is written "None".  An optional number or                               *)
(* object (a JSON value that may be missing) is a sequence of length 0 or  *)
(* 1.  Fixed texts that the code only passes on (error kinds, endpoints,   *)
(* headers) are TLA+ strings.                                              *)
(*                                                                         *)
(* State.  access_token is LibroFmIE._ACCESS_TOKEN.  op, args and ret are  *)
(* the operation called last, its inputs (with the answers of the network  *)
(* collaborators it consults) and what it returned or raised; pc is        *)
(* "call" while the operation has not run yet and "done" afterwards.       *)
(***************************************************************************)
EXTENDS Integers, Sequences, FiniteSets, TLC

VARIABLES access_token, op, args, ret, pc

vars == <<access_token, op, args, ret, pc>>

None == <<"None">>

(***************************************************************************)
(* Bounds of the input spaces.                                             *)
(***************************************************************************)
MaxParts == 3
MaxTracks == 2
MaxSoundIds == 2
MaxVariants == 2
MaxImages == 2

(***************************************************************************)
(* Generic helpers.                                                        *)
(***************************************************************************)
SeqsUpTo(S, n) == UNION {[1..k -> S] : k \in 0..n}

Max(S) == CHOOSE x \in S : \A y \in S : y <= x

RECURSIVE Flatten(_)
Flatten(ss) == IF ss = <<>> THEN <<>> ELSE Head(ss) \o Flatten(Tail(ss))

AsciiDigits == {"0", "1", "2", "3", "4", "5", "6", "7", "8", "9"}

\* the decimal digits (Unicode category Nd, Unicode 14.0.0) beyond ASCII,
\* each row the digits 0 to 9 of one script
UnicodeDigits ==
    {
      "U+0660", "U+0661", "U+0662", "U+0663", "U+0664", "U+0665", "U+0666", "U+0667", "U+0668", "U+0669",
      "U+06F0", "U+06F1", "U+06F2", "U+06F3", "U+06F4", "U+06F5", "U+06F6", "U+06F7", "U+06F8", "U+06F9",
      "U+07C0", "U+07C1", "U+07C2", "U+07C3", "U+07C4", "U+07C5", "U+07C6", "U+07C7", "U+07C8", "U+07C9",
      "U+0966", "U+0967", "U+0968", "U+0969", "U+096A", "U+096B", "U+096C", "U+096D", "U+096E", "U+096F",
      "U+09E6", "U+09E7", "U+09E8", "U+09E9", "U+09EA", "U+09EB", "U+09EC", "U+09ED", "U+09EE", "U+09EF",
      "U+0A66", "U+0A67", "U+0A68", "U+0A69", "U+0A6A", "U+0A6B", "U+0A6C", "U+0A6D", "U+0A6E", "U+0A6F",
      "U+0AE6", "U+0AE7", "U+0AE8", "U+0AE9", "U+0AEA", "U+0AEB", "U+0AEC", "U+0AED", "U+0AEE", "U+0AEF",
      "U+0B66", "U+0B67", "U+0B68", "U+0B69", "U+0B6A", "U+0B6B", "U+0B6C", "U+0B6D", "U+0B6E", "U+0B6F",
      "U+0BE6", "U+0BE7", "U+0BE8", "U+0BE9", "U+0BEA", "U+0BEB", "U+0BEC", "U+0BED", "U+0BEE", "U+0BEF",
      "U+0C66", "U+0C67", "U+0C68", "U+0C69", "U+0C6A", "U+0C6B", "U+0C6C", "U+0C6D", "U+0C6E", "U+0C6F",
      "U+0CE6", "U+0CE7", "U+0CE8", "U+0CE9", "U+0CEA", "U+0CEB", "U+0CEC", "U+0CED", "U+0CEE", "U+0CEF",
      "U+0D66", "U+0D67", "U+0D68", "U+0D69", "U+0D6A", "U+0D6B", "U+0D6C", "U+0D6D", "U+0D6E", "U+0D6F",
      "U+0DE6", "U+0DE7", "U+0DE8", "U+0DE9", "U+0DEA", "U+0DEB", "U+0DEC", "U+0DED", "U+0DEE", "U+0DEF",
      "U+0E50", "U+0E51", "U+0E52", "U+0E53", "U+0E54", "U+0E55", "U+0E56", "U+0E57", "U+0E58", "U+0E59",
      "U+0ED0", "U+0ED1", "U+0ED2", "U+0ED3", "U+0ED4", "U+0ED5", "U+0ED6", "U+0ED7", "U+0ED8", "U+0ED9",
      "U+0F20", "U+0F21", "U+0F22", "U+0F23", "U+0F24", "U+0F25", "U+0F26", "U+0F27", "U+0F28", "U+0F29",
      "U+1040", "U+1041", "U+1042", "U+1043", "U+1044", "U+1045", "U+1046", "U+1047", "U+1048", "U+1049",
      "U+1090", "U+1091", "U+1092", "U+1093", "U+1094", "U+1095", "U+1096", "U+1097", "U+1098", "U+1099",
      "U+17E0", "U+17E1", "U+17E2", "U+17E3", "U+17E4", "U+17E5", "U+17E6", "U+17E7", "U+17E8", "U+17E9",
      "U+1810", "U+1811", "U+1812", "U+1813", "U+1814", "U+1815", "U+1816", "U+1817", "U+1818", "U+1819",
      "U+1946", "U+1947", "U+1948", "U+1949", "U+194A", "U+194B", "U+194C", "U+194D", "U+194E", "U+194F",
      "U+19D0", "U+19D1", "U+19D2", "U+19D3", "U+19D4", "U+19D5", "U+19D6", "U+19D7", "U+19D8", "U+19D9",
      "U+1A80", "U+1A81", "U+1A82", "U+1A83", "U+1A84", "U+1A85", "U+1A86", "U+1A87", "U+1A88", "U+1A89",
      "U+1A90", "U+1A91", "U+1A92", "U+1A93", "U+1A94", "U+1A95", "U+1A96", "U+1A97", "U+1A98", "U+1A99",
      "U+1B50", "U+1B51", "U+1B52", "U+1B53", "U+1B54", "U+1B55", "U+1B56", "U+1B57", "U+1B58", "U+1B59",
      "U+1BB0", "U+1BB1", "U+1BB2", "U+1BB3", "U+1BB4", "U+1BB5", "U+1BB6", "U+1BB7", "U+1BB8", "U+1BB9",
      "U+1C40", "U+1C41", "U+1C42", "U+1C43", "U+1C44", "U+1C45", "U+1C46", "U+1C47", "U+1C48", "U+1C49",
      "U+1C50", "U+1C51", "U+1C52", "U+1C53", "U+1C54", "U+1C55", "U+1C56", "U+1C57", "U+1C58", "U+1C59",
      "U+A620", "U+A621", "U+A622", "U+A623", "U+A624", "U+A625", "U+A626", "U+A627", "U+A628", "U+A629",
      "U+A8D0", "U+A8D1", "U+A8D2", "U+A8D3", "U+A8D4", "U+A8D5", "U+A8D6", "U+A8D7", "U+A8D8", "U+A8D9",
      "U+A900", "U+A901", "U+A902", "U+A903", "U+A904", "U+A905", "U+A906", "U+A907", "U+A908", "U+A909",
      "U+A9D0", "U+A9D1", "U+A9D2", "U+A9D3", "U+A9D4", "U+A9D5", "U+A9D6", "U+A9D7", "U+A9D8", "U+A9D9",
      "U+A9F0", "U+A9F1", "U+A9F2", "U+A9F3", "U+A9F4", "U+A9F5", "U+A9F6", "U+A9F7", "U+A9F8", "U+A9F9",
      "U+AA50", "U+AA51", "U+AA52", "U+AA53", "U+AA54", "U+AA55", "U+AA56", "U+AA57", "U+AA58", "U+AA59",
      "U+ABF0", "U+ABF1", "U+ABF2", "U+ABF3", "U+ABF4", "U+ABF5", "U+ABF6", "U+ABF7", "U+ABF8", "U+ABF9",
      "U+FF10", "U+FF11", "U+FF12", "U+FF13", "U+FF14", "U+FF15", "U+FF16", "U+FF17", "U+FF18", "U+FF19",
      "U+104A0", "U+104A1", "U+104A2", "U+104A3", "U+104A4", "U+104A5", "U+104A6", "U+104A7", "U+104A8", "U+104A9",
      "U+10D30", "U+10D31", "U+10D32", "U+10D33", "U+10D34", "U+10D35", "U+10D36", "U+10D37", "U+10D38", "U+10D39",
      "U+11066", "U+11067", "U+11068", "U+11069", "U+1106A", "U+1106B", "U+1106C", "U+1106D", "U+1106E", "U+1106F",
      "U+110F0", "U+110F1", "U+110F2", "U+110F3", "U+110F4", "U+110F5", "U+110F6", "U+110F7", "U+110F8", "U+110F9",
      "U+11136", "U+11137", "U+11138", "U+11139", "U+1113A", "U+1113B", "U+1113C", "U+1113D", "U+1113E", "U+1113F",
      "U+111D0", "U+111D1", "U+111D2", "U+111D3", "U+111D4", "U+111D5", "U+111D6", "U+111D7", "U+111D8", "U+111D9",
      "U+112F0", "U+112F1", "U+112F2", "U+112F3", "U+112F4", "U+112F5", "U+112F6", "U+112F7", "U+112F8", "U+112F9",
      "U+11450", "U+11451", "U+11452", "U+11453", "U+11454", "U+11455", "U+11456", "U+11457", "U+11458", "U+11459",
      "U+114D0", "U+114D1", "U+114D2", "U+114D3", "U+114D4", "U+114D5", "U+114D6", "U+114D7", "U+114D8", "U+114D9",
      "U+11650", "U+11651", "U+11652", "U+11653", "U+11654", "U+11655", "U+11656", "U+11657", "U+11658", "U+11659",
      "U+116C0", "U+116C1", "U+116C2", "U+116C3", "U+116C4", "U+116C5", "U+116C6", "U+116C7", "U+116C8", "U+116C9",
      "U+11730", "U+11731", "U+11732", "U+11733", "U+11734", "U+11735", "U+11736", "U+11737", "U+11738", "U+11739",
      "U+118E0", "U+118E1", "U+118E2", "U+118E3", "U+118E4", "U+118E5", "U+118E6", "U+118E7", "U+118E8", "U+118E9",
      "U+11950", "U+11951", "U+11952", "U+11953", "U+11954", "U+11955", "U+11956", "U+11957", "U+11958", "U+11959",
      "U+11C50", "U+11C51", "U+11C52", "U+11C53", "U+11C54", "U+11C55", "U+11C56", "U+11C57", "U+11C58", "U+11C59",
      "U+11D50", "U+11D51", "U+11D52", "U+11D53", "U+11D54", "U+11D55", "U+11D56", "U+11D57", "U+11D58", "U+11D59",
      "U+11DA0", "U+11DA1", "U+11DA2", "U+11DA3", "U+11DA4", "U+11DA5", "U+11DA6", "U+11DA7", "U+11DA8", "U+11DA9",
      "U+16A60", "U+16A61", "U+16A62", "U+16A63", "U+16A64", "U+16A65", "U+16A66", "U+16A67", "U+16A68", "U+16A69",
      "U+16AC0", "U+16AC1", "U+16AC2", "U+16AC3", "U+16AC4", "U+16AC5", "U+16AC6", "U+16AC7", "U+16AC8", "U+16AC9",
      "U+16B50", "U+16B51", "U+16B52", "U+16B53", "U+16B54", "U+16B55", "U+16B56", "U+16B57", "U+16B58", "U+16B59",
      "U+1D7CE", "U+1D7CF", "U+1D7D0", "U+1D7D1", "U+1D7D2", "U+1D7D3", "U+1D7D4", "U+1D7D5", "U+1D7D6", "U+1D7D7",
      "U+1D7D8", "U+1D7D9", "U+1D7DA", "U+1D7DB", "U+1D7DC", "U+1D7DD", "U+1D7DE", "U+1D7DF", "U+1D7E0", "U+1D7E1",
      "U+1D7E2", "U+1D7E3", "U+1D7E4", "U+1D7E5", "U+1D7E6", "U+1D7E7", "U+1D7E8", "U+1D7E9", "U+1D7EA", "U+1D7EB",
      "U+1D7EC", "U+1D7ED", "U+1D7EE", "U+1D7EF", "U+1D7F0", "U+1D7F1", "U+1D7F2", "U+1D7F3", "U+1D7F4", "U+1D7F5",
      "U+1D7F6", "U+1D7F7", "U+1D7F8", "U+1D7F9", "U+1D7FA", "U+1D7FB", "U+1D7FC", "U+1D7FD", "U+1D7FE", "U+1D7FF",
      "U+1E140", "U+1E141", "U+1E142", "U+1E143", "U+1E144", "U+1E145", "U+1E146", "U+1E147", "U+1E148", "U+1E149",
      "U+1E2F0", "U+1E2F1", "U+1E2F2", "U+1E2F3", "U+1E2F4", "U+1E2F5", "U+1E2F6", "U+1E2F7", "U+1E2F8", "U+1E2F9",
      "U+1E950", "U+1E951", "U+1E952", "U+1E953", "U+1E954", "U+1E955", "U+1E956", "U+1E957", "U+1E958", "U+1E959",
      "U+1FBF0", "U+1FBF1", "U+1FBF2", "U+1FBF3", "U+1FBF4", "U+1FBF5", "U+1FBF6", "U+1FBF7", "U+1FBF8", "U+1FBF9" }

\* the characters \d matches in a str pattern compiled without re.ASCII
Digits == AsciiDigits \cup UnicodeDigits

DigitChar(d) == <<"0", "1", "2", "3", "4", "5", "6", "7", "8", "9">>[d + 1]

\* str(n) / f"{n}" for a non-negative int
RECURSIVE ToDec(_)
ToDec(n) == IF n < 10 THEN <<DigitChar(n)>>
            ELSE ToDec(n \div 10) \o <<DigitChar(n % 10)>>

(***************************************************************************)
(* String literals of the source.                                          *)
(***************************************************************************)
ExtM3u8 == <<".", "m", "3", "u", "8">>
ExtMpd == <<".", "m", "p", "d">>
LitHlsDir == <<"/", "H", "L", "S", "/">>
LitVersion == <<"_", "v">>
LitDashMpd == <<"/", "D", "A", "S", "H", ".", "m", "p", "d">>
LitHlsTarget == <<"/", "H", "L", "S", "/", "1", "2", "8", "_", "v", "4", ".", "m", "3", "u", "8">>

(***************************************************************************)
(* Regular-expression matching, as Python's re.match does it.  None of the *)
(* modelled strings holds a newline, so "." matches every character and    *)
(* "$" matches only at the end.                                            *)
(***************************************************************************)
\* the literal lit occurs in u at index i
IsAt(u, i, lit) ==
    /\ i >= 1
    /\ i + Len(lit) - 1 <= Len(u)
    /\ SubSeq(u, i, i + Len(lit) - 1) = lit

\* (\?.*)?$ matches from index j on
EndOrQuery(u, j) == j = Len(u) + 1 \/ (j <= Len(u) /\ u[j] = "?")

\* the indices i at which ^(.*)<ext>(\?.*)?$ can place <ext>
ExtPositions(u, ext) ==
    {i \in 1..Len(u) : IsAt(u, i, ext) /\ EndOrQuery(u, i + Len(ext))}

\* \d{1,} matches exactly the k characters from index j on
DigitsAt(u, j, k) ==
    /\ k >= 1
    /\ j + k - 1 <= Len(u)
    /\ \A x \in j..(j + k - 1) : u[x] \in Digits

\* (_v\d)?\.m3u8(\?.*)?$ matches from index j on
HlsTailAt(u, j) ==
    \/ IsAt(u, j, ExtM3u8) /\ EndOrQuery(u, j + 5)
    \/ /\ IsAt(u, j, LitVersion)
       /\ j + 2 <= Len(u)
       /\ u[j + 2] \in Digits
       /\ IsAt(u, j + 3, ExtM3u8)
       /\ EndOrQuery(u, j + 8)

\* re.match(r'^(.*)\/HLS\/\d{1,}(_v\d)?\.m3u8(\?.*)?$', url)
MatchesHlsCanonical(u) ==
    \E i \in 1..Len(u) :
        /\ IsAt(u, i, LitHlsDir)
        /\ \E k \in 1..Len(u) : DigitsAt(u, i + 5, k) /\ HlsTailAt(u, i + 5 + k)

\* re.match(r'^(.*)\/DASH\.mpd(\?.*)?$', url)
MatchesDashCanonical(u) ==
    \E i \in 1..Len(u) : IsAt(u, i, LitDashMpd) /\ EndOrQuery(u, i + 9)

\* re.sub(r'^(.*)\.m3u8(\?.*)?$', r'\1/HLS/128_v4.m3u8', url): the greedy
\* group 1 ends before the last admissible ".m3u8"; group 2 is not used.
HlsSub(u) ==
    LET i == Max(ExtPositions(u, ExtM3u8))
    IN  SubSeq(u, 1, i - 1) \o LitHlsTarget

\* a variant of DashSub whose replacement leaves out group 2, as the HLS one does
DashSubDropsQuery(u) ==
    LET i == Max(ExtPositions(u, ExtMpd))
    IN  SubSeq(u, 1, i - 1) \o LitDashMpd

\* re.sub(r'^(.*)\.mpd(\?.*)?$', r'\1/DASH.mpd\2', url)
DashSub(u) ==
    LET i == Max(ExtPositions(u, ExtMpd))
    IN  SubSeq(u, 1, i - 1) \o LitDashMpd \o SubSeq(u, i + 4, Len(u))

\* ExtremeMusicAlbumIE._get_hls_stream_url
_get_hls_stream_url(url) ==
    IF url = None \/ ExtPositions(url, ExtM3u8) = {} THEN None
    ELSE IF MatchesHlsCanonical(url) THEN url
    ELSE HlsSub(url)

\* a variant of _get_dash_stream_url without the early return for URLs
\* that already name DASH.mpd
DashAlwaysRewrites(url) ==
    IF url = None \/ ExtPositions(url, ExtMpd) = {} THEN None
    ELSE DashSub(url)

\* ExtremeMusicAlbumIE._get_dash_stream_url
_get_dash_stream_url(url) ==
    IF url = None \/ ExtPositions(url, ExtMpd) = {} THEN None
    ELSE IF MatchesDashCanonical(url) THEN url
    ELSE DashSub(url)

(***************************************************************************)
(* Stream URLs offered to the normalizers: host, directories, a last       *)
(* segment, an extension and an optional query string.                     *)
(***************************************************************************)
UrlPrefixes == {<<"/", "/", "h">>, <<"/", "/", "h", "/", "a">>}

UrlStems ==
    { <<"/", "t">>,
      <<"/", "H", "L", "S", "/", "1", "2", "8", "_", "v", "4">>,
      <<"/", "H", "L", "S", "/", "6", "4">>,
      <<"/", "H", "L", "S", "/">>,
      <<"/", "H", "L", "S", "/", "6", "_", "v">>,
      <<"/", "H", "L", "S", "/", "6", "_", "v", "x">>,
      <<"/", "H", "L", "S", "/", "U+0663">>,
      <<"/", "H", "L", "S", "/", "6", "_", "v", "U+0663">>,
      <<"/", "h", "l", "s", "/", "6">>,
      <<"/", "D", "A", "S", "H">>,
      <<"/", "t", "/", "D", "A", "S", "H">>,
      <<"/", "d", "a", "s", "h">> }

UrlExtensions == {ExtM3u8, ExtMpd, <<".", "m", "p", "4">>, <<>>}

UrlQueries ==
    { <<>>,
      <<"?", "k", "=", "1">>,
      <<"?", "u", "=", "/", "b", ".", "m", "3", "u", "8">>,
      <<"?", "u", "=", "/", "H", "L", "S", "/", "2", ".", "m", "3", "u", "8">>,
      <<"?", "u", "=", "b", ".", "m", "p", "d">>,
      <<"?", "u", "=", "/", "D", "A", "S", "H", ".", "m", "p", "d">> }

StreamUrls ==
    {p \o s \o e \o q : p \in UrlPrefixes, s \in UrlStems, e \in UrlExtensions, q \in UrlQueries}

(***************************************************************************)
(* Helpers of yt_dlp.utils and yt_dlp.extractor.common used below.         *)
(***************************************************************************)
UrlSchemes ==
    { <<"h", "t", "t", "p">>, <<"h", "t", "t", "p", "s">>,
      <<"r", "t", "m", "p">>, <<"r", "t", "m", "p", "t">>, <<"r", "t", "m", "p", "e">>,
      <<"r", "t", "m", "p", "s">>, <<"r", "t", "m", "p", "t", "e">>,
      <<"r", "t", "m", "p", "t", "s">>, <<"r", "t", "m", "f", "p">>,
      <<"r", "t", "s", "p">>, <<"r", "t", "s", "p", "s">>, <<"r", "t", "s", "p", "u">>,
      <<"m", "m", "s">>, <<"f", "t", "p">>, <<"f", "t", "p", "s">> }

\* utils.url_or_none: the value itself when it is a str that starts with
\* "//" or "<scheme>://", otherwise None (no modelled string has blanks to strip)
url_or_none(v) ==
    IF /\ v # None
       /\ \/ IsAt(v, 1, <<"/", "/">>)
          \/ \E sch \in UrlSchemes : IsAt(v, 1, sch \o <<":", "/", "/">>)
    THEN v
    ELSE None

\* utils.int_or_none on an optional int
int_or_none(v) == v

\* InfoExtractor._extract_mpd_formats(url, video_id, fatal=False): one format
\* per representation the manifest lists; answer is the list of their ids,
\* empty when the download or the parsing fails.
_extract_mpd_formats(url, answer) ==
    [i \in 1..Len(answer) |-> [format_id |-> answer[i], url |-> url, vcodec |-> None]]

\* InfoExtractor._extract_m3u8_formats(url, video_id, fatal=False), likewise
_extract_m3u8_formats(url, answer) ==
    [i \in 1..Len(answer) |-> [format_id |-> answer[i], url |-> url, vcodec |-> None]]

(***************************************************************************)
(* ExtremeMusicAlbumIE._extract_asset_formats.  A format is a record with  *)
(* the keys url, vcodec and format_id, None for a key the dict lacks.      *)
(***************************************************************************)
VcodecNone == <<"n", "o", "n", "e">>

ProgressiveFormats(asset) ==
    IF url_or_none(asset.preview_url) \notin {None, <<>>}
    THEN <<[format_id |-> None, url |-> url_or_none(asset.preview_url), vcodec |-> VcodecNone]>>
    ELSE <<>>

DashFormats(asset, mpd) ==
    LET url == _get_dash_stream_url(url_or_none(asset.preview_url_dash))
    IN  IF url \notin {None, <<>>} THEN _extract_mpd_formats(url, mpd) ELSE <<>>

HlsFormats(asset, m3u8) ==
    LET url == _get_hls_stream_url(url_or_none(asset.preview_url_hls))
    IN  IF url \notin {None, <<>>} THEN _extract_m3u8_formats(url, m3u8) ELSE <<>>

\* a variant of _extract_asset_formats that expands HLS before DASH
AssetFormatsHlsFirst(asset, mpd, m3u8) ==
    ProgressiveFormats(asset) \o HlsFormats(asset, m3u8) \o DashFormats(asset, mpd)

\* mpd and m3u8 are the answers of the two manifest expanders
_extract_asset_formats(asset, mpd, m3u8) ==
    ProgressiveFormats(asset) \o DashFormats(asset, mpd) \o HlsFormats(asset, m3u8)

ProgressiveUrls == {None, <<"/", "/", "h", "/", "p", ".", "m", "p", "3">>}

DashUrls ==
    { None,
      <<"/", "/", "h", "/", "t", ".", "m", "p", "d">>,
      <<"/", "/", "h", "/", "t", "/", "D", "A", "S", "H", ".", "m", "p", "d", "?", "k", "=", "1">>,
      <<"/", "/", "h", "/", "t", ".", "m", "p", "4">> }

HlsUrls ==
    { None,
      <<"/", "/", "h", "/", "t", ".", "m", "3", "u", "8", "?", "k", "=", "1">>,
      <<"/", "/", "h", "/", "H", "L", "S", "/", "6", "4", ".", "m", "3", "u", "8">>,
      <<"/", "/", "h", "/", "t", ".", "m", "p", "d">> }

Assets ==
    [preview_url : ProgressiveUrls, preview_url_dash : DashUrls, preview_url_hls : HlsUrls]

\* what a manifest expander may answer: nothing (failure), one or two formats
ExpanderAnswers == {<<>>, <<<<"r", "1">>>>, <<<<"r", "1">>, <<"r", "2">>>>}

(***************************************************************************)
(* ExtremeMusicAlbumIE._collect_images.  The "images" dict is the sequence *)
(* of its items in iteration order, each a record of the key (image_type)  *)
(* and the list of image descriptors.  A thumbnail is a record with the    *)
(* keys id, url, width and height; width and height are empty for None     *)
(* and for a key the dict lacks.                                           *)
(***************************************************************************)
LitWebp == <<"_", "w", "e", "b", "p">>

\* a variant of prepare_thumbnail that takes the primary url for the WebP entry too
PrepareThumbnailSameUrl(image_type, image, webp) ==
    LET w == int_or_none(image.width)
        h == int_or_none(image.width)
        sized == IF w # <<>> THEN image_type \o <<"_">> \o ToDec(w[1]) ELSE image_type
    IN  [id |-> IF webp THEN sized \o LitWebp ELSE sized,
         url |-> url_or_none(image.url),
         width |-> w,
         height |-> h]

\* the nested function prepare_thumbnail
prepare_thumbnail(image_type, image, webp) ==
    LET w == int_or_none(image.width)
        h == int_or_none(image.width)
        sized == IF w # <<>> THEN image_type \o <<"_">> \o ToDec(w[1]) ELSE image_type
    IN  [id |-> IF webp THEN sized \o LitWebp ELSE sized,
         url |-> IF webp THEN url_or_none(image.webp) ELSE url_or_none(image.url),
         width |-> w,
         height |-> h]

\* the loop over info["images"]
PrimaryThumbnails(info) ==
    Flatten([c \in 1..Len(info.images) |->
        Flatten([d \in 1..Len(info.images[c].images) |->
            << prepare_thumbnail(info.images[c].image_type, info.images[c].images[d], FALSE),
               prepare_thumbnail(info.images[c].image_type, info.images[c].images[d], TRUE) >>])])

FlatKeys == <<<<"d", "e", "t", "a", "i", "l">>, <<"l", "a", "r", "g", "e">>, <<"s", "m", "a", "l", "l">>>>

\* info.get(f"image_{thumb_id}_url") for the k-th of ("detail", "large", "small")
FlatUrl(info, k) ==
    IF k = 1 THEN info.image_detail_url
    ELSE IF k = 2 THEN info.image_large_url
    ELSE info.image_small_url

\* a variant of the loop over ("detail", "large", "small") that does not look at seen_urls
RECURSIVE FallbackFromAllUrls(_, _, _)
FallbackFromAllUrls(info, k, seen_urls) ==
    IF k > Len(FlatKeys) THEN <<>>
    ELSE LET url == url_or_none(FlatUrl(info, k))
         IN  IF url # None
             THEN <<[id |-> FlatKeys[k], url |-> url, width |-> <<>>, height |-> <<>>]>>
                  \o FallbackFromAllUrls(info, k + 1, seen_urls \cup {url})
             ELSE FallbackFromAllUrls(info, k + 1, seen_urls)

\* the loop over ("detail", "large", "small"), from its k-th round on
RECURSIVE FallbackFrom(_, _, _)
FallbackFrom(info, k, seen_urls) ==
    IF k > Len(FlatKeys) THEN <<>>
    ELSE LET url == url_or_none(FlatUrl(info, k))
         IN  IF url # None /\ url \notin seen_urls
             THEN <<[id |-> FlatKeys[k], url |-> url, width |-> <<>>, height |-> <<>>]>>
                  \o FallbackFrom(info, k + 1, seen_urls \cup {url})
             ELSE FallbackFrom(info, k + 1, seen_urls)

_collect_images(info) ==
    IF PrimaryThumbnails(info) # <<>>
    THEN PrimaryThumbnails(info)
    ELSE FallbackFrom(info, 1, {})

ImageTypes == {<<"c", "o", "v", "e", "r">>, <<"h", "e", "r", "o">>}

ImageUrl == <<"/", "/", "x", "/", "a", ".", "j", "p", "g">>

WebpUrl == <<"/", "/", "x", "/", "a", ".", "w", "e", "b", "p">>

ImageDescriptors == [width : {<<>>, <<300>>}, url : {None, ImageUrl}, webp : {None, WebpUrl}]

\* the "images" dicts of two different keys, in either order, with k1 and k2 descriptors
TwoKeyMaps(k1, k2) ==
    { <<[image_type |-> t[1], images |-> l1], [image_type |-> t[2], images |-> l2]>> :
          t \in {tt \in ImageTypes \X ImageTypes : tt[1] # tt[2]},
          l1 \in [1..k1 -> ImageDescriptors], l2 \in [1..k2 -> ImageDescriptors] }

\* the "images" dicts with at most n descriptors in all: no key, one key or two keys
ImageMaps(n) ==
    {<<>>}
    \cup {<<[image_type |-> t, images |-> l]>> : t \in ImageTypes, l \in SeqsUpTo(ImageDescriptors, n)}
    \cup UNION {TwoKeyMaps(p[1], p[2]) : p \in {q \in (0..n) \X (0..n) : q[1] + q[2] <= n}}

FlatUrls == {None, ImageUrl, <<"/", "/", "x", "/", "l", ".", "j", "p", "g">>}

ImageInfos ==
    [images : ImageMaps(MaxImages),
     image_detail_url : FlatUrls, image_large_url : FlatUrls, image_small_url : FlatUrls]

(***************************************************************************)
(* ExtremeMusicAlbumIE._real_extract.  album is the decoded "album-..."    *)
(* entry of the page's config JSON, empty when the config has no such key. *)
(* Of a track the model keeps id, title (None for null), the image fields  *)
(* and track_sound_ids; of a sound version id, version_name and            *)
(* assets.audio (empty when missing).  An entry is a record with the keys  *)
(* id, title, track, thumbnails and formats (formats is empty for a        *)
(* missing key).  mpd and m3u8 are the answers of the two manifest         *)
(* expanders.                                                              *)
(***************************************************************************)
\* the dict track_sounds after the loop over album_info["track_sounds"]:
\* the last sound version listed with the id
SoundVersion(track_sounds, id) ==
    track_sounds[Max({k \in 1..Len(track_sounds) : track_sounds[k].id = id})]

HasSoundVersion(track_sounds, id) == \E k \in 1..Len(track_sounds) : track_sounds[k].id = id

\* f"{entry['id']}-{track_sound['id']}"
CombinedId(track_id, sound_id) == ToDec(track_id) \o <<"-">> \o ToDec(sound_id)

\* f"{entry['title']} ({track_sound['version_name']})"
VersionTitle(title, version_name) == title \o <<" ", "(">> \o version_name \o <<")">>

\* the entry of one sound version of a track
SoundEntry(track, track_sound, mpd, m3u8) ==
    [id |-> CombinedId(track.id, track_sound.id),
     title |-> VersionTitle(track.title, track_sound.version_name),
     track |-> VersionTitle(track.title, track_sound.version_name),
     thumbnails |-> _collect_images(track),
     formats |-> IF track_sound.audio = <<>> THEN <<>>
                 ELSE _extract_asset_formats(track_sound.audio[1], mpd, m3u8)]

\* the inner loop over track["track_sound_ids"]
TrackEntries(track, track_sounds, mpd, m3u8) ==
    [k \in 1..Len(track.track_sound_ids) |->
        SoundEntry(track, SoundVersion(track_sounds, track.track_sound_ids[k]), mpd, m3u8)]

\* the rounds <<t, k>> of the inner loop, in the order they run: sound
\* version id k of track t
LoopRounds(info) ==
    Flatten([t \in 1..Len(info.tracks) |->
        [k \in 1..Len(info.tracks[t].track_sound_ids) |-> <<t, k>>]])

\* the key whose lookup fails in a round, None when no lookup fails:
\* track_sounds[track_sound_id] for an id that is not in the table, then
\* entry['title'] for a track whose title is null (traverse_obj leaves out
\* the key when str_or_none gives None)
MissingKey(info, round) ==
    LET track == info.tracks[round[1]]
        track_sound_id == track.track_sound_ids[round[2]]
    IN  IF ~HasSoundVersion(info.track_sounds, track_sound_id) THEN ToDec(track_sound_id)
        ELSE IF track.title = None THEN <<"t", "i", "t", "l", "e">>
        ELSE None

\* ExtremeMusicAlbumIE._real_extract: the first round with a failing lookup
\* ends the extraction with KeyError
AlbumExtract(album_id, album, mpd, m3u8) ==
    IF album = <<>> THEN [kind |-> "ExtractorError"]
    ELSE LET info == album[1]
             rounds == LoopRounds(info)
             failing == {r \in 1..Len(rounds) : MissingKey(info, rounds[r]) # None}
         IN  IF failing # {}
             THEN [kind |-> "KeyError",
                   key |-> MissingKey(info, rounds[CHOOSE r \in failing : \A q \in failing : r <= q])]
             ELSE [kind |-> "playlist",
                   id |-> album_id,
                   entries |-> Flatten([t \in 1..Len(info.tracks) |->
                                           TrackEntries(info.tracks[t], info.track_sounds, mpd, m3u8)])]

SoundIds == {7, 8}

AudioAsset ==
    [preview_url |-> <<"/", "/", "h", "/", "p", ".", "m", "p", "3">>,
     preview_url_dash |-> <<"/", "/", "h", "/", "t", ".", "m", "p", "d">>,
     preview_url_hls |-> <<"/", "/", "h", "/", "t", ".", "m", "3", "u", "8">>]

\* sound version 7 has an audio asset, sound version 8 has none
SoundVersions ==
    { [id |-> 7, version_name |-> <<"m", "i", "x">>, audio |-> <<AudioAsset>>],
      [id |-> 8, version_name |-> <<"d", "r", "y">>, audio |-> <<>>] }

\* id and title of a track: track 1 has a title, the title of track 20 is null
TrackHeads ==
    { [id |-> 1, title |-> <<"A">>],
      [id |-> 20, title |-> None] }

Tracks ==
    { [id |-> h.id, title |-> h.title, track_sound_ids |-> ids,
       images |-> <<>>, image_detail_url |-> ImageUrl,
       image_large_url |-> None, image_small_url |-> None] :
          h \in TrackHeads, ids \in SeqsUpTo(SoundIds, MaxSoundIds) }

Albums ==
    {<<>>} \cup {<<a>> : a \in [tracks : SeqsUpTo(Tracks, MaxTracks),
                                track_sounds : SeqsUpTo(SoundVersions, Cardinality(SoundIds))]}

\* what the two manifest expanders answer during one extraction: nothing
\* (failure), or one DASH format and two HLS formats
AlbumAnswers ==
    { [mpd |-> <<>>, m3u8 |-> <<>>],
      [mpd |-> <<<<"r", "1">>>>, m3u8 |-> <<<<"r", "1">>, <<"r", "2">>>>] }

AlbumIds == {<<"6", "7", "7", "8">>}

(***************************************************************************)
(* Calls of the ExtremeMusic helpers.  Each behaviour is one call: the     *)
(* initial state holds the operation and its inputs (pc = "call"), the     *)
(* action runs the whole operation and stores what it returns.             *)
(***************************************************************************)
InitExtremeMusic ==
    /\ access_token = None
    /\ pc = "call"
    /\ ret = <<>>
    /\ \/ op = "_get_hls_stream_url" /\ args \in StreamUrls \cup {None}
       \/ op = "_get_dash_stream_url" /\ args \in StreamUrls \cup {None}
       \/ /\ op = "_extract_asset_formats"
          /\ args \in [asset : Assets, mpd : ExpanderAnswers, m3u8 : ExpanderAnswers]
       \/ op = "_collect_images" /\ args \in ImageInfos
       \/ /\ op = "ExtremeMusicAlbumIE._real_extract"
          /\ args \in {[album_id |-> i, album |-> a, mpd |-> e.mpd, m3u8 |-> e.m3u8] :
                           i \in AlbumIds, a \in Albums, e \in AlbumAnswers}

\* a call of ExtremeMusicAlbumIE._get_hls_stream_url
GetHlsStreamUrl ==
    /\ pc = "call"
    /\ op = "_get_hls_stream_url"
    /\ ret' = _get_hls_stream_url(args)
    /\ pc' = "done"
    /\ UNCHANGED <<access_token, op, args>>

\* a call of ExtremeMusicAlbumIE._get_dash_stream_url
GetDashStreamUrl ==
    /\ pc = "call"
    /\ op = "_get_dash_stream_url"
    /\ ret' = _get_dash_stream_url(args)
    /\ pc' = "done"
    /\ UNCHANGED <<access_token, op, args>>

\* a call of ExtremeMusicAlbumIE._extract_asset_formats
ExtractAssetFormats ==
    /\ pc = "call"
    /\ op = "_extract_asset_formats"
    /\ ret' = _extract_asset_formats(args.asset, args.mpd, args.m3u8)
    /\ pc' = "done"
    /\ UNCHANGED <<access_token, op, args>>

\* a call of ExtremeMusicAlbumIE._collect_images
CollectImages ==
    /\ pc = "call"
    /\ op = "_collect_images"
    /\ ret' = _collect_images(args)
    /\ pc' = "done"
    /\ UNCHANGED <<access_token, op, args>>

\* a call of ExtremeMusicAlbumIE._real_extract
ExtremeMusicRealExtract ==
    /\ pc = "call"
    /\ op = "ExtremeMusicAlbumIE._real_extract"
    /\ ret' = AlbumExtract(args.album_id, args.album, args.mpd, args.m3u8)
    /\ pc' = "done"
    /\ UNCHANGED <<access_token, op, args>>

NextExtremeMusic ==
    \/ GetHlsStreamUrl
    \/ GetDashStreamUrl
    \/ ExtractAssetFormats
    \/ CollectImages
    \/ ExtremeMusicRealExtract

SpecExtremeMusic == InitExtremeMusic /\ [][NextExtremeMusic]_vars

(***************************************************************************)
(* RuutuIE.  media["streamUrls"] is the sequence of the dict's items in    *)
(* iteration order: the variant's name and its entry (empty for null).     *)
(* A format is a record with the keys format_id, url, acodec, vcodec and   *)
(* preference (preference is empty for a key the dict lacks).  Seconds are *)
(* whole numbers.  media["subtitles"] is the list of its entries, each     *)
(* with language and url (empty for a key the entry lacks) and name; the   *)
(* subtitles of the result are the sequence of the dict's items, language  *)
(* and tracks.  Thumbnails and the metadata fields are not part of the     *)
(* model.                                                                  *)
(***************************************************************************)
HlsVariantNames ==
    { <<"a", "n", "d", "r", "o", "i", "d">>, <<"a", "p", "p", "l", "e">>,
      <<"a", "u", "d", "i", "o", "H", "l", "s">>, <<"c", "a", "s", "t">>,
      <<"s", "a", "m", "s", "u", "n", "g">>, <<"w", "e", "b", "H", "l", "s">> }

NameDash == <<"d", "a", "s", "h">>

NameAudioMp3 == <<"a", "u", "d", "i", "o", "M", "p", "3">>

NameHttp == <<"h", "t", "t", "p">>

LitMp3 == <<"m", "p", "3">>

\* the format a manifest expander returns, as a Ruutu format
ExpandedFormat(f) ==
    [format_id |-> f.format_id, url |-> f.url, acodec |-> None, vcodec |-> None, preference |-> <<>>]

\* the else branch of the dispatch on the variant's name
DirectFormat(name, url) ==
    [format_id |-> name,
     url |-> url,
     acodec |-> IF name = NameAudioMp3 THEN LitMp3 ELSE None,
     vcodec |-> IF name = NameAudioMp3 THEN LitMp3 ELSE None,
     preference |-> IF name = NameHttp THEN <<-1001>> ELSE <<>>]

\* fmt is skipped by "if not fmt or fmt.get('withCredentials'): continue"
SkippedForCredentials(fmt) == fmt = <<>> \/ fmt[1].withCredentials

\* InfoExtractor._extract_m3u8_formats_and_subtitles(url, video_id,
\* fatal=False): the formats of the manifest and the subtitles it lists;
\* answer holds the format ids and the subtitles dict, both empty when the
\* download or the parsing fails
_extract_m3u8_formats_and_subtitles(url, answer) ==
    [formats |-> _extract_m3u8_formats(url, answer.formats), subtitles |-> answer.subtitles]

\* InfoExtractor._merge_subtitle_items: the items of subtitle_list1, then
\* those of subtitle_list2 whose url no item of subtitle_list1 has (no
\* modelled item holds data)
_merge_subtitle_items(subtitle_list1, subtitle_list2) ==
    subtitle_list1
    \o SelectSeq(subtitle_list2,
                 LAMBDA item : \A k \in 1..Len(subtitle_list1) : subtitle_list1[k].url # item.url)

\* InfoExtractor._merge_subtitles(d, target=target), language by language;
\* a subtitles dict is the sequence of its items, language and tracks, and a
\* language new to target is added at its end
RECURSIVE _merge_subtitles(_, _)
_merge_subtitles(d, target) ==
    IF d = <<>> THEN target
    ELSE LET lang == d[1].language
             at == {k \in 1..Len(target) : target[k].language = lang}
         IN  _merge_subtitles(Tail(d),
                 IF at = {}
                 THEN target \o <<[language |-> lang,
                                   tracks |-> _merge_subtitle_items(<<>>, d[1].tracks)]>>
                 ELSE [k \in 1..Len(target) |->
                          IF k \in at
                          THEN [language |-> lang,
                                tracks |-> _merge_subtitle_items(target[k].tracks, d[1].tracks)]
                          ELSE target[k]])

\* the formats one variant adds, the manifest expansions it invokes and the
\* subtitles its HLS expansion answers
VariantFormats(name, url, m3u8, mpd) ==
    IF name \in HlsVariantNames
    THEN LET expanded == _extract_m3u8_formats_and_subtitles(url, m3u8)
         IN  [formats |-> [i \in 1..Len(expanded.formats) |-> ExpandedFormat(expanded.formats[i])],
              expansions |-> <<[protocol |-> "m3u8", url |-> url]>>,
              subtitles |-> expanded.subtitles]
    ELSE IF name = NameDash
    THEN [formats |-> [i \in 1..Len(mpd) |-> ExpandedFormat(_extract_mpd_formats(url, mpd)[i])],
          expansions |-> <<[protocol |-> "mpd", url |-> url]>>,
          subtitles |-> <<>>]
    ELSE [formats |-> <<DirectFormat(name, url)>>, expansions |-> <<>>, subtitles |-> <<>>]

\* the loop of RuutuIE._extract_formats_and_subtitles from its k-th item on,
\* with the urls seen and the subtitles merged so far; m3u8 and mpd are the
\* answers of the two manifest expanders
RECURSIVE FormatsFrom(_, _, _, _, _, _)
FormatsFrom(streamUrls, k, seen_urls, subtitles, m3u8, mpd) ==
    IF k > Len(streamUrls) THEN [formats |-> <<>>, expansions |-> <<>>, subtitles |-> subtitles]
    ELSE LET name == streamUrls[k].name
             fmt == streamUrls[k].fmt
             url == IF fmt = <<>> THEN None ELSE url_or_none(fmt[1].url)
         IN  IF SkippedForCredentials(fmt) \/ url \in {None, <<>>} \/ url \in seen_urls
             THEN FormatsFrom(streamUrls, k + 1, seen_urls, subtitles, m3u8, mpd)
             ELSE LET here == VariantFormats(name, url, m3u8, mpd)
                      rest == FormatsFrom(streamUrls, k + 1, seen_urls \cup {url},
                                          _merge_subtitles(here.subtitles, subtitles), m3u8, mpd)
                  IN  [formats |-> here.formats \o rest.formats,
                       expansions |-> here.expansions \o rest.expansions,
                       subtitles |-> rest.subtitles]

\* the entries of media["subtitles"] for which the dict comprehension
\* raises KeyError: s['language'] or s['url'] names a key the entry lacks
FailingSubtitles(subtitles) ==
    {k \in 1..Len(subtitles) : subtitles[k].language = <<>> \/ subtitles[k].url = <<>>}

\* the key of the KeyError: the first failing entry's, and of that entry
\* 'language' (the key expression is evaluated before the value)
MissingSubtitleKey(subtitles) ==
    LET k == CHOOSE i \in FailingSubtitles(subtitles) : \A j \in FailingSubtitles(subtitles) : i <= j
    IN  IF subtitles[k].language = <<>> THEN "language" ELSE "url"

\* the dict {s['language']: [{'name': s.get('name'), 'url': s['url']}] ...}
\* as the sequence of its items: a language stands where it occurs first
\* and keeps the value of its last occurrence
SubtitleDict(subtitles) ==
    LET firsts == SelectSeq([k \in 1..Len(subtitles) |-> k],
                            LAMBDA k : \A j \in 1..(k - 1) :
                                           subtitles[j].language # subtitles[k].language)
    IN  [i \in 1..Len(firsts) |->
            LET last == Max({k \in 1..Len(subtitles) :
                                 subtitles[k].language = subtitles[firsts[i]].language})
            IN  [language |-> subtitles[last].language[1],
                 tracks |-> <<[name |-> subtitles[last].name, url |-> subtitles[last].url[1]]>>]]

\* RuutuIE._extract_formats_and_subtitles: the loop over the variants, then
\* the merge of the dict built from media["subtitles"] into the subtitles
\* of the HLS expansions; kind "KeyError" stands for the KeyError raised
\* while that dict is built
_extract_formats_and_subtitles(media, m3u8, mpd) ==
    LET looped == FormatsFrom(media.streamUrls, 1, {}, <<>>, m3u8, mpd)
    IN  IF FailingSubtitles(media.subtitles) # {}
        THEN [kind |-> "KeyError", key |-> MissingSubtitleKey(media.subtitles),
              formats |-> looped.formats, expansions |-> looped.expansions, subtitles |-> <<>>]
        ELSE [kind |-> "ok", key |-> "",
              formats |-> looped.formats, expansions |-> looped.expansions,
              subtitles |-> _merge_subtitles(SubtitleDict(media.subtitles), looped.subtitles)]

\* utils.float_or_none on an optional number
float_or_none(v) == v

\* a variant of the chapters list that is built from the duration alone and
\* lets the end credits start at 0 when endCredits is unknown
ChaptersFromDuration(runtime, endCredits) ==
    LET duration == float_or_none(runtime)
        end_credits_start == float_or_none(endCredits)
    IN  IF duration # <<>>
        THEN <<[start_time |-> IF end_credits_start # <<>> THEN end_credits_start[1] ELSE 0,
                end_time |-> duration[1], title |-> "End Credits"]>>
        ELSE <<>>

\* the chapters list of RuutuIE._real_extract
Chapters(runtime, endCredits) ==
    LET duration == float_or_none(runtime)
        end_credits_start == float_or_none(endCredits)
    IN  IF duration # <<>> /\ end_credits_start # <<>>
        THEN <<[start_time |-> end_credits_start[1], end_time |-> duration[1], title |-> "End Credits"]>>
        ELSE <<>>

\* RuutuIE._real_extract: a KeyError of _extract_formats_and_subtitles ends
\* the extraction (kind "KeyError", with the formats built and the
\* expansions invoked before it); report_drm raises, so kind "DrmProtected"
\* stands for that error and kind "video" for the returned info dict
RuutuExtract(video_json, m3u8, mpd) ==
    LET extracted == _extract_formats_and_subtitles(video_json.media, m3u8, mpd)
    IN  IF extracted.kind = "KeyError"
        THEN [kind |-> "KeyError", key |-> extracted.key, formats |-> extracted.formats,
              expansions |-> extracted.expansions, subtitles |-> <<>>,
              duration |-> <<>>, chapters |-> <<>>]
        ELSE IF extracted.formats = <<>> /\ video_json.drm_enabled
        THEN [kind |-> "DrmProtected", key |-> "", formats |-> extracted.formats,
              expansions |-> extracted.expansions, subtitles |-> <<>>,
              duration |-> <<>>, chapters |-> <<>>]
        ELSE [kind |-> "video", key |-> "", formats |-> extracted.formats,
              expansions |-> extracted.expansions, subtitles |-> extracted.subtitles,
              duration |-> float_or_none(video_json.runtime),
              chapters |-> Chapters(video_json.runtime, video_json.endCredits)]

VariantNames == {<<"w", "e", "b", "H", "l", "s">>, NameDash, NameAudioMp3, NameHttp, <<"w", "e", "b">>}

RuutuUrl1 == <<"/", "/", "r", "/", "1">>

RuutuUrl2 == <<"/", "/", "r", "/", "2">>

VariantEntries ==
    { <<>>,
      <<[withCredentials |-> TRUE, url |-> RuutuUrl1]>>,
      <<[withCredentials |-> FALSE, url |-> None]>>,
      <<[withCredentials |-> FALSE, url |-> RuutuUrl1]>>,
      <<[withCredentials |-> FALSE, url |-> RuutuUrl2]>> }

\* the streamUrls dicts with at most n keys
StreamUrlDicts(n) ==
    {d \in SeqsUpTo([name : VariantNames, fmt : VariantEntries], n) :
        \A i \in 1..Len(d) : \A j \in 1..Len(d) : d[i].name = d[j].name => i = j}

Seconds == {<<>>, <<100>>, <<114>>}

LangFi == <<"f", "i">>

SubtitleUrl1 == <<"/", "/", "r", "/", "f", "i", ".", "v", "t", "t">>

SubtitleUrl2 == <<"/", "/", "r", "/", "f", "i", "2", ".", "v", "t", "t">>

\* the lists media["subtitles"] may hold: none, two tracks of one language,
\* a track followed by one without "url", a track without "language".
\* language and url are empty for a key the entry lacks, name is None then.
SubtitleLists ==
    { <<>>,
      <<[language |-> <<LangFi>>, name |-> <<"S">>, url |-> <<SubtitleUrl1>>],
        [language |-> <<LangFi>>, name |-> None, url |-> <<SubtitleUrl2>>]>>,
      <<[language |-> <<LangFi>>, name |-> None, url |-> <<SubtitleUrl1>>],
        [language |-> <<LangFi>>, name |-> None, url |-> <<>>]>>,
      <<[language |-> <<>>, name |-> None, url |-> <<>>]>> }

HlsSubtitleUrl == <<"/", "/", "r", "/", "h", "l", "s", ".", "v", "t", "t">>

\* what the two manifest expanders answer during one extraction: the HLS
\* expander a format and a subtitle track of its own while DASH fails; both
\* a format, the HLS one with a subtitle track that media["subtitles"] may
\* list too; the HLS expander nothing (failure) and the DASH one a format
RuutuAnswers ==
    { [m3u8 |-> [formats |-> <<<<"r", "1">>>>,
                 subtitles |-> <<[language |-> LangFi,
                                  tracks |-> <<[name |-> None, url |-> HlsSubtitleUrl]>>]>>],
       mpd |-> <<>>],
      [m3u8 |-> [formats |-> <<<<"r", "1">>>>,
                 subtitles |-> <<[language |-> LangFi,
                                  tracks |-> <<[name |-> None, url |-> SubtitleUrl2]>>]>>],
       mpd |-> <<<<"r", "1">>>>],
      [m3u8 |-> [formats |-> <<>>, subtitles |-> <<>>], mpd |-> <<<<"r", "1">>>>] }

VideoJsons ==
    [media : [streamUrls : StreamUrlDicts(MaxVariants), subtitles : SubtitleLists],
     drm_enabled : BOOLEAN,
     runtime : Seconds, endCredits : Seconds]

InitRuutu ==
    /\ access_token = None
    /\ pc = "call"
    /\ ret = <<>>
    /\ op = "RuutuIE._real_extract"
    /\ args \in [video_json : VideoJsons, answers : RuutuAnswers]

\* a call of RuutuIE._real_extract
RuutuRealExtract ==
    /\ pc = "call"
    /\ op = "RuutuIE._real_extract"
    /\ ret' = RuutuExtract(args.video_json, args.answers.m3u8, args.answers.mpd)
    /\ pc' = "done"
    /\ UNCHANGED <<access_token, op, args>>

NextRuutu == RuutuRealExtract

SpecRuutu == InitRuutu /\ [][NextRuutu]_vars

(***************************************************************************)
(* LibroFmIE.  A login answer is what the POST to /oauth/token yields:     *)
(* status "failed" (the download raises), "no_token" (JSON without the key *)
(* access_token) or "ok" (JSON with an access_token).  The value of an     *)
(* operation is a record; kind names the error raised or the type of the   *)
(* info dict returned, requests lists the fetches issued, each with the    *)
(* bearer token it carried.                                                *)
(***************************************************************************)
TokenUser == <<"_", "_", "t", "o", "k", "e", "n", "_", "_">>

\* utils.join_nonempty: the values that are neither None nor empty, joined by delim
RECURSIVE join_nonempty(_, _)
join_nonempty(values, delim) ==
    LET kept == SelectSeq(values, LAMBDA v : v # None /\ v # <<>>)
    IN  IF kept = <<>> THEN <<>>
        ELSE IF Len(kept) = 1 THEN kept[1]
        ELSE kept[1] \o delim \o join_nonempty(Tail(kept), delim)

\* LibroFmIE._perform_login: the token stored afterwards and the outcome
PerformLogin(token, username, password, answer) ==
    IF username = TokenUser
    THEN [access_token |-> password, value |-> [kind |-> "ok", requests |-> <<>>, to_screen |-> None]]
    ELSE IF answer.status = "failed"
    THEN [access_token |-> token,
          value |-> [kind |-> "ExtractorError", requests |-> <<"oauth/token">>, to_screen |-> None]]
    ELSE IF answer.status = "no_token"
    THEN [access_token |-> token,
          value |-> [kind |-> "KeyError", requests |-> <<"oauth/token">>, to_screen |-> None]]
    ELSE [access_token |-> answer.access_token,
          value |-> [kind |-> "ok", requests |-> <<"oauth/token">>, to_screen |-> answer.access_token]]

\* LibroFmIE._process_part
_process_part(part) ==
    [formats |-> <<[url |-> part.url,
                    format |-> "zip archive of mp3 files",
                    filesize |-> part.size_bytes,
                    http_headers |-> "User-Agent: AndroidDownloadManager/11"]>>]

\* f'(Part {i})'
PartLabel(i) == <<"(", "P", "a", "r", "t", " ">> \o ToDec(i) \o <<")">>

\* a variant of PartEntries that numbers the parts from 0
PartEntriesFromZero(isbn, title, parts) ==
    [k \in 1..Len(parts) |->
        [id |-> isbn \o <<"-">> \o ToDec(k - 1),
         title |-> join_nonempty(<<title, PartLabel(k - 1)>>, <<" ">>),
         formats |-> _process_part(parts[k]).formats]]

\* the list entries: one per part, numbered from 1
PartEntries(isbn, title, parts) ==
    [k \in 1..Len(parts) |->
        [id |-> isbn \o <<"-">> \o ToDec(k),
         title |-> join_nonempty(<<title, PartLabel(k)>>, <<" ">>),
         formats |-> _process_part(parts[k]).formats]]

\* the fetches of LibroFmIE._real_extract
DetailsRequest(token) == [endpoint |-> "/api/v7/explore/audiobook_details", bearer |-> token]

ManifestRequest(token) == [endpoint |-> "/api/v9/download-manifest", bearer |-> token]

Failure(kind, requests) ==
    [kind |-> kind, requests |-> requests, id |-> None, title |-> None,
     formats |-> <<>>, entries |-> <<>>]

\* a variant of LibroExtract without the check of _ACCESS_TOKEN
LibroExtractUnguarded(token, isbn, details, manifest) ==
    IF details.status = "failed"
    THEN Failure("ExtractorError", <<DetailsRequest(token)>>)
    ELSE IF manifest.status = "failed"
    THEN Failure("ExtractorError", <<DetailsRequest(token), ManifestRequest(token)>>)
    ELSE LET entries == PartEntries(isbn, details.title, manifest.parts)
             requests == <<DetailsRequest(token), ManifestRequest(token)>>
         IN  IF Len(entries) = 1
             THEN [kind |-> "video", requests |-> requests, id |-> isbn, title |-> details.title,
                   formats |-> entries[1].formats, entries |-> <<>>]
             ELSE [kind |-> "multi_video", requests |-> requests, id |-> isbn,
                   title |-> details.title, formats |-> <<>>, entries |-> entries]

\* LibroFmIE._real_extract; details and manifest are the answers of the
\* audiobook-details fetch and of the download-manifest fetch
LibroExtract(token, isbn, details, manifest) ==
    IF token = None
    THEN Failure("LoginRequired", <<>>)
    ELSE IF details.status = "failed"
    THEN Failure("ExtractorError", <<DetailsRequest(token)>>)
    ELSE IF manifest.status = "failed"
    THEN Failure("ExtractorError", <<DetailsRequest(token), ManifestRequest(token)>>)
    ELSE LET entries == PartEntries(isbn, details.title, manifest.parts)
             requests == <<DetailsRequest(token), ManifestRequest(token)>>
         IN  IF Len(entries) = 1
             THEN [kind |-> "video", requests |-> requests, id |-> isbn, title |-> details.title,
                   formats |-> entries[1].formats, entries |-> <<>>]
             ELSE [kind |-> "multi_video", requests |-> requests, id |-> isbn,
                   title |-> details.title, formats |-> <<>>, entries |-> entries]

Tokens == {<<"t", "1">>, <<"t", "2">>}

\* the "__token__" bypass with a token as password, or an account
Credentials ==
    [username : {TokenUser}, password : Tokens]
    \cup {[username |-> <<"a", "n", "n">>, password |-> <<"p", "w">>]}

LoginAnswers ==
    {[status |-> "failed", access_token |-> None], [status |-> "no_token", access_token |-> None]}
    \cup [status : {"ok"}, access_token : Tokens]

\* the "__token__" bypass issues no request
NoAnswer == [status |-> "not asked", access_token |-> None]

Isbns == {<<"9", "7", "8", "1", "2", "5", "0", "7", "6", "1", "1", "7", "0">>}

Titles == {<<"D", "u", "n", "e">>, <<>>, None}

DetailsAnswers == {[status |-> "failed", title |-> None]} \cup [status : {"ok"}, title : Titles]

Parts == [url : {<<"/", "/", "l", "/", "1">>, <<"/", "/", "l", "/", "2">>}, size_bytes : {10}]

ManifestAnswers ==
    {[status |-> "failed", parts |-> <<>>]} \cup [status : {"ok"}, parts : SeqsUpTo(Parts, MaxParts)]

InitLibroFm ==
    /\ access_token = None
    /\ op = "init"
    /\ args = <<>>
    /\ ret = <<>>
    /\ pc = "done"

\* a call of LibroFmIE._perform_login
LibroFmPerformLogin ==
    \E cred \in Credentials :
    \E answer \in IF cred.username = TokenUser THEN {NoAnswer} ELSE LoginAnswers :
        LET after == PerformLogin(access_token, cred.username, cred.password, answer)
        IN  /\ access_token' = after.access_token
            /\ op' = "LibroFmIE._perform_login"
            /\ args' = [username |-> cred.username, password |-> cred.password, answer |-> answer]
            /\ ret' = after.value
            /\ pc' = "done"

\* a call of LibroFmIE._real_extract
LibroFmRealExtract ==
    \E isbn \in Isbns, details \in DetailsAnswers, manifest \in ManifestAnswers :
        /\ op' = "LibroFmIE._real_extract"
        /\ args' = [isbn |-> isbn, details |-> details, manifest |-> manifest]
        /\ ret' = LibroExtract(access_token, isbn, details, manifest)
        /\ pc' = "done"
        /\ UNCHANGED access_token

NextLibroFm ==
    \/ LibroFmPerformLogin
    \/ LibroFmRealExtract

SpecLibroFm == InitLibroFm /\ [][NextLibroFm]_vars

(***************************************************************************)
(* Properties of LibroFmIE.                                                *)
(***************************************************************************)
LoginStep == op' = "LibroFmIE._perform_login"

ExtractStep == op' = "LibroFmIE._real_extract"

LibroExtracted == pc = "done" /\ op = "LibroFmIE._real_extract"

\* C1: an extract that runs while no token is stored raises the
\* authentication-required error without issuing the audiobook-details fetch
\* or the download-manifest fetch, and a login that fails while no token is
\* stored leaves the token absent.
C1_ExtractRequiresLogin ==
    [][ /\ (ExtractStep /\ access_token = None)
              => (ret'.kind = "LoginRequired" /\ ret'.requests = <<>>)
        /\ (LoginStep /\ access_token = None /\ ret'.kind # "ok")
              => access_token' = None ]_vars

\* C1 witness: an extract has run without a stored token
C1_Witness ==
    /\ LibroExtracted
    /\ access_token = None
    /\ args.details.status = "ok"
    /\ args.manifest.status = "ok"
    /\ ret.kind = "LoginRequired"

\* C2: the token is write-once: once a login (credential exchange or
\* "__token__" bypass) has stored a token, no later operation, extract or
\* further login call, changes the stored token.
C2_TokenWriteOnce == [][access_token # None => access_token' = access_token]_vars

\* the title "<title> (Part i)" of entry i
SuffixedTitle(title, i) == title \o <<" ", "(", "P", "a", "r", "t", " ">> \o ToDec(i) \o <<")">>

\* the audiobook extraction went through
LibroReturned == LibroExtracted /\ ret.kind \in {"video", "multi_video"}

\* the part of C3 about a manifest with one part: a single item with the
\* ISBN as id, the parent title and the part's format
SinglePartCollapses ==
    (LibroReturned /\ Len(args.manifest.parts) = 1) =>
        /\ ret.kind = "video"
        /\ ret.id = args.isbn
        /\ ret.title = args.details.title
        /\ Len(ret.formats) = 1
        /\ ret.formats[1].url = args.manifest.parts[1].url
        /\ ret.formats[1].filesize = args.manifest.parts[1].size_bytes

\* C3 as stated: one part gives a single item with the ISBN as id and the
\* parent title; N >= 2 parts give a playlist of N entries in manifest order,
\* entry i with id "<isbn>-<i>" and title "<title> (Part i)".
C3_PartsTitledWithSuffix ==
    /\ SinglePartCollapses
    /\ (LibroReturned /\ Len(args.manifest.parts) >= 2 /\ args.details.title # None) =>
              /\ ret.kind = "multi_video"
              /\ Len(ret.entries) = Len(args.manifest.parts)
              /\ \A i \in 1..Len(args.manifest.parts) :
                    /\ ret.entries[i].id = args.isbn \o <<"-">> \o ToDec(i)
                    /\ ret.entries[i].title = SuffixedTitle(args.details.title, i)
                    /\ ret.entries[i].formats[1].url = args.manifest.parts[i].url

\* C3 as amended: as stated, except that entry i is titled "<title> (Part i)"
\* only when the title is not empty; when the title is empty or absent the
\* entry is titled "(Part i)".
C3_PartsTitledWithSuffixIfTitled ==
    /\ SinglePartCollapses
    /\ (LibroReturned /\ Len(args.manifest.parts) >= 2) =>
              /\ ret.kind = "multi_video"
              /\ Len(ret.entries) = Len(args.manifest.parts)
              /\ \A i \in 1..Len(args.manifest.parts) :
                    /\ ret.entries[i].id = args.isbn \o <<"-">> \o ToDec(i)
                    /\ ret.entries[i].title =
                          IF args.details.title \in {None, <<>>}
                          THEN <<"(", "P", "a", "r", "t", " ">> \o ToDec(i) \o <<")">>
                          ELSE SuffixedTitle(args.details.title, i)
                    /\ ret.entries[i].formats[1].url = args.manifest.parts[i].url

\* C3 witness: a titled audiobook in two parts
C3_Witness ==
    /\ LibroReturned
    /\ Len(args.manifest.parts) = 2
    /\ args.details.title = <<"D", "u", "n", "e">>
    /\ args.manifest.parts[1].url # args.manifest.parts[2].url
    /\ ret.entries[2].id = args.isbn \o <<"-", "2">>
    /\ ret.entries[2].title = <<"D", "u", "n", "e", " ", "(", "P", "a", "r", "t", " ", "2", ")">>

(***************************************************************************)
(* Properties of the stream URL normalizers.                               *)
(***************************************************************************)
\* index of the first "?" of u, or Len(u) + 1 when there is none
QueryStart(u) ==
    IF \E j \in 1..Len(u) : u[j] = "?"
    THEN CHOOSE j \in 1..Len(u) : u[j] = "?" /\ \A x \in 1..(j - 1) : u[x] # "?"
    ELSE Len(u) + 1

PathOf(u) == SubSeq(u, 1, QueryStart(u) - 1)

QueryOf(u) == SubSeq(u, QueryStart(u), Len(u))

EndsWith(u, lit) == Len(u) >= Len(lit) /\ SubSeq(u, Len(u) - Len(lit) + 1, Len(u)) = lit

DropLast(u, n) == SubSeq(u, 1, Len(u) - n)

\* u up to and including its last "/"
DirOf(u) ==
    IF \E j \in 1..Len(u) : u[j] = "/"
    THEN SubSeq(u, 1, Max({j \in 1..Len(u) : u[j] = "/"}))
    ELSE <<>>

HlsCalled == pc = "done" /\ op = "_get_hls_stream_url" /\ args # None

DashCalled == pc = "done" /\ op = "_get_dash_stream_url" /\ args # None

\* C6: a URL whose path ends in ".m3u8" and is not already of the form
\* ".../HLS/<digits>[_v<digit>].m3u8" comes back with "/HLS/128_v4" inserted
\* before ".m3u8" and with its query string kept after the extension.
C6_HlsInsertKeepsQuery ==
    (HlsCalled /\ EndsWith(PathOf(args), ExtM3u8) /\ ~MatchesHlsCanonical(PathOf(args)))
        => ret = DropLast(PathOf(args), 5) \o <<"/", "H", "L", "S", "/", "1", "2", "8", "_", "v", "4">>
                 \o ExtM3u8 \o QueryOf(args)

\* C7 as stated: a URL whose path ends in "/DASH.mpd" comes back unchanged,
\* any other URL whose path ends in ".mpd" comes back with its last path
\* segment replaced by "DASH.mpd" and its query string kept.
C7_DashReplacesLastSegment ==
    (DashCalled /\ EndsWith(PathOf(args), ExtMpd))
        => IF EndsWith(PathOf(args), LitDashMpd)
           THEN ret = args
           ELSE ret = DirOf(PathOf(args)) \o <<"D", "A", "S", "H">> \o ExtMpd \o QueryOf(args)

\* C7 as amended: a URL that holds "/DASH.mpd" at its end or right before
\* a "?" comes back unchanged; otherwise "/DASH" is inserted right before the
\* last ".mpd" that ends the URL or is followed by "?", and everything before
\* and after the insertion is the input's text (the last segment's name stays,
\* as a directory).
C7_DashInsertsDirectory ==
    (DashCalled /\ ExtPositions(args, ExtMpd) # {})
        => IF MatchesDashCanonical(args)
           THEN ret = args
           ELSE /\ ret # None
                /\ Len(ret) = Len(args) + 5
                /\ \E i \in ExtPositions(args, ExtMpd) :
                      /\ \A j \in ExtPositions(args, ExtMpd) : j <= i
                      /\ \A x \in 1..(i - 1) : ret[x] = args[x]
                      /\ SubSeq(ret, i, i + 4) = <<"/", "D", "A", "S", "H">>
                      /\ \A x \in i..Len(args) : ret[x + 5] = args[x]

\* C7 witness: a DASH URL with a query string has been rewritten
C7_Witness ==
    /\ DashCalled
    /\ args = <<"/", "/", "h", "/", "a", "/", "t", ".", "m", "p", "d", "?", "k", "=", "1">>
    /\ ret = <<"/", "/", "h", "/", "a", "/", "t", "/", "D", "A", "S", "H", ".", "m", "p", "d", "?", "k", "=", "1">>

\* C8: an HLS URL of the canonical shape is a fixed point of
\* _get_hls_stream_url, and whatever _get_dash_stream_url returns is a fixed
\* point of _get_dash_stream_url.
C8_NormalizersIdempotent ==
    /\ (HlsCalled /\ MatchesHlsCanonical(args) /\ ExtPositions(args, ExtM3u8) # {})
          => (ret = args /\ _get_hls_stream_url(ret) = ret)
    /\ (DashCalled /\ ret # None) => _get_dash_stream_url(ret) = ret

\* C8 witness: _get_dash_stream_url has rewritten a URL
C8_Witness == DashCalled /\ ret # None /\ ret # args

(***************************************************************************)
(* Properties of _extract_asset_formats.                                   *)
(***************************************************************************)
AssetFormatsCalled == pc = "done" /\ op = "_extract_asset_formats"

\* the formats of ret that came from the manifest at url
FromManifest(url) == SelectSeq(ret, LAMBDA f : f.format_id # None /\ f.url = url)

\* C9: the result is the progressive format (vcodec "none") if there is a
\* progressive URL, then the DASH expander's formats if the DASH URL
\* normalizes, then the HLS expander's formats if the HLS URL normalizes; an
\* expander that yields nothing takes nothing away from the other sources, and
\* with no source the result is the empty list.
C9_AssetFormatsConcatenation ==
    AssetFormatsCalled =>
        LET a == args.asset
            prog == IF a.preview_url # None
                    THEN <<[format_id |-> None, url |-> a.preview_url, vcodec |-> VcodecNone]>>
                    ELSE <<>>
            dashUrl == _get_dash_stream_url(a.preview_url_dash)
            hlsUrl == _get_hls_stream_url(a.preview_url_hls)
            dash == IF dashUrl # None
                    THEN [i \in 1..Len(args.mpd) |-> [format_id |-> args.mpd[i], url |-> dashUrl, vcodec |-> None]]
                    ELSE <<>>
            hls == IF hlsUrl # None
                   THEN [i \in 1..Len(args.m3u8) |-> [format_id |-> args.m3u8[i], url |-> hlsUrl, vcodec |-> None]]
                   ELSE <<>>
        IN  /\ ret = prog \o dash \o hls
            /\ (args.mpd = <<>> /\ hlsUrl # None) => FromManifest(hlsUrl) = hls
            /\ (args.m3u8 = <<>> /\ dashUrl # None) => FromManifest(dashUrl) = dash
            /\ (prog = <<>> /\ (dashUrl = None \/ args.mpd = <<>>) /\ (hlsUrl = None \/ args.m3u8 = <<>>))
                  => ret = <<>>

\* C9 witness: all three sources contributed, DASH before HLS
C9_Witness ==
    /\ AssetFormatsCalled
    /\ Len(ret) = 5
    /\ ret[1].vcodec = VcodecNone
    /\ ret[2].url = <<"/", "/", "h", "/", "t", "/", "D", "A", "S", "H", ".", "m", "p", "d">>
    /\ ret[5].url = <<"/", "/", "h", "/", "H", "L", "S", "/", "6", "4", ".", "m", "3", "u", "8">>

(***************************************************************************)
(* Properties of _collect_images.                                          *)
(***************************************************************************)
CollectImagesCalled == pc = "done" /\ op = "_collect_images"

\* the image descriptors of info["images"], in iteration order, each with its key
Descriptors(info) ==
    Flatten([c \in 1..Len(info.images) |->
        [d \in 1..Len(info.images[c].images) |->
            [image_type |-> info.images[c].image_type, image |-> info.images[c].images[d]]]])

\* "<category>[_<width>]"
SizedId(desc) ==
    IF desc.image.width = <<>> THEN desc.image_type
    ELSE desc.image_type \o <<"_">> \o ToDec(desc.image.width[1])

NoFlatUrl(info) ==
    info.image_detail_url = None /\ info.image_large_url = None /\ info.image_small_url = None

\* C10: for an image map (with descriptors, or without any and without flat
\* image fields to fall back to) the result holds exactly two thumbnails per
\* descriptor, in descriptor order, the primary one right before the WebP
\* one; their ids are "<category>[_<width>]" and "<category>[_<width>]_webp",
\* their urls the descriptor's url and webp url, absent when the descriptor
\* has none.
C10_TwoThumbnailsPerDescriptor ==
    (CollectImagesCalled /\ (Descriptors(args) # <<>> \/ NoFlatUrl(args))) =>
        LET ds == Descriptors(args)
        IN  /\ Len(ret) = 2 * Len(ds)
            /\ \A k \in 1..Len(ds) :
                  /\ ret[2 * k - 1].id = SizedId(ds[k])
                  /\ ret[2 * k - 1].url = ds[k].image.url
                  /\ ret[2 * k].id = SizedId(ds[k]) \o <<"_", "w", "e", "b", "p">>
                  /\ ret[2 * k].url = ds[k].image.webp

\* C10 witness: two categories, one descriptor without width and url, one with
\* both, and flat fields that are not consulted
C10_Witness ==
    /\ CollectImagesCalled
    /\ Len(args.images) = 2
    /\ args.image_large_url # None
    /\ Len(ret) = 4
    /\ ret[1].id = <<"h", "e", "r", "o">> /\ ret[1].url = None
    /\ ret[2].id = <<"h", "e", "r", "o", "_", "w", "e", "b", "p">> /\ ret[2].url = WebpUrl
    /\ ret[3].id = <<"c", "o", "v", "e", "r", "_", "3", "0", "0">> /\ ret[3].url = ImageUrl
    /\ ret[4].id = <<"c", "o", "v", "e", "r", "_", "3", "0", "0", "_", "w", "e", "b", "p">>

\* the k-th flat field holds a URL that no earlier flat field holds
FirstOccurrence(info, k) ==
    /\ url_or_none(FlatUrl(info, k)) # None
    /\ \A j \in 1..(k - 1) : url_or_none(FlatUrl(info, j)) # url_or_none(FlatUrl(info, k))

\* C11: with image descriptors in the image map no thumbnail comes from the
\* flat fields image_detail_url, image_large_url, image_small_url; without
\* any, the result holds, in the order detail, large, small, one thumbnail
\* {id: key, url} per flat field whose URL is present and not the URL of an
\* earlier flat field, and nothing else, so no two thumbnails share a URL
\* and there are at most 3.
C11_FallbackDeduplicated ==
    CollectImagesCalled =>
        IF Descriptors(args) # <<>>
        THEN \A i \in 1..Len(ret) : \A k \in 1..Len(FlatKeys) : ret[i].id # FlatKeys[k]
        ELSE /\ Len(ret) = Cardinality({k \in 1..Len(FlatKeys) : FirstOccurrence(args, k)})
             /\ Len(ret) <= 3
             /\ \A k \in 1..Len(FlatKeys) :
                   FirstOccurrence(args, k) =>
                       LET i == Cardinality({j \in 1..k : FirstOccurrence(args, j)})
                       IN  /\ ret[i].id = FlatKeys[k]
                           /\ ret[i].url = FlatUrl(args, k)
             /\ \A i \in 1..Len(ret) : \A j \in 1..Len(ret) : ret[i].url = ret[j].url => i = j

\* C11 witness: no image map, no detail URL, the same URL as large and as
\* small: one thumbnail, "large"
C11_Witness ==
    /\ CollectImagesCalled
    /\ args.images = <<>>
    /\ args.image_detail_url = None
    /\ args.image_large_url = <<"/", "/", "x", "/", "l", ".", "j", "p", "g">>
    /\ args.image_small_url = args.image_large_url
    /\ Len(ret) = 1
    /\ ret[1].id = <<"l", "a", "r", "g", "e">>
    /\ ret[1].url = args.image_large_url

\* C13: the thumbnails of every returned list have pairwise distinct ids,
\* whatever the image data: any number of categories and of descriptors per
\* category, widths present, absent or repeated.
C13_ThumbnailIdsDistinct ==
    CollectImagesCalled =>
        \A i \in 1..Len(ret) : \A j \in 1..Len(ret) : ret[i].id = ret[j].id => i = j

(***************************************************************************)
(* Properties of ExtremeMusicAlbumIE._real_extract.                        *)
(***************************************************************************)
AlbumExtracted == pc = "done" /\ op = "ExtremeMusicAlbumIE._real_extract" /\ args.album # <<>>

\* the (track id, sound version id) occurrences of the album, in track
\* order and within a track in the order its track_sound_ids list them
Occurrences(info) ==
    Flatten([t \in 1..Len(info.tracks) |->
        [k \in 1..Len(info.tracks[t].track_sound_ids) |->
            <<info.tracks[t].id, info.tracks[t].track_sound_ids[k]>>]])

AllSoundIdsKnown(info) ==
    \A t \in 1..Len(info.tracks) : \A k \in 1..Len(info.tracks[t].track_sound_ids) :
        \E j \in 1..Len(info.track_sounds) :
            info.track_sounds[j].id = info.tracks[t].track_sound_ids[k]

\* C4: when every listed sound version id is in the sound version table, the
\* result is a playlist with one entry per (track, sound version id)
\* occurrence, in that order, repeated ids included; entry k has the id
\* "<trackId>-<soundId>" of occurrence k, and a track without sound versions
\* has no entry.
C4_OneEntryPerSoundVersion ==
    (AlbumExtracted /\ AllSoundIdsKnown(args.album[1])) =>
        LET occ == Occurrences(args.album[1])
        IN  /\ ret.kind = "playlist"
            /\ Len(ret.entries) = Len(occ)
            /\ \A k \in 1..Len(occ) :
                  ret.entries[k].id = ToDec(occ[k][1]) \o <<"-">> \o ToDec(occ[k][2])

(***************************************************************************)
(* Properties of RuutuIE._real_extract.                                    *)
(***************************************************************************)
RuutuExtracted == pc = "done" /\ op = "RuutuIE._real_extract"

\* every variant entry is present and flagged withCredentials
AllWithCredentials(streamUrls) ==
    \A k \in 1..Len(streamUrls) :
        streamUrls[k].fmt # <<>> /\ streamUrls[k].fmt[1].withCredentials

\* C5: when every variant is flagged withCredentials no format is built and
\* no manifest expansion is invoked, and with the DRM flag set the extraction
\* then ends with DrmProtected; DrmProtected is raised only with an empty
\* format list and the DRM flag set.
C5_CredentialVariantsSkipped ==
    RuutuExtracted =>
        /\ AllWithCredentials(args.video_json.media.streamUrls)
              => /\ ret.formats = <<>>
                 /\ ret.expansions = <<>>
                 /\ args.video_json.drm_enabled => ret.kind = "DrmProtected"
        /\ ret.kind = "DrmProtected" => (ret.formats = <<>> /\ args.video_json.drm_enabled)

\* C12: the chapters list of a returned video item is empty unless both
\* runtime (the total duration) and endCredits (the end credits' start
\* offset) are known; when both are known it holds exactly one chapter with
\* start_time = endCredits, end_time = runtime and title "End Credits".
C12_EndCreditsChapter ==
    (RuutuExtracted /\ ret.kind = "video") =>
        IF args.video_json.runtime # <<>> /\ args.video_json.endCredits # <<>>
        THEN /\ Len(ret.chapters) = 1
             /\ ret.chapters[1].start_time = args.video_json.endCredits[1]
             /\ ret.chapters[1].end_time = args.video_json.runtime[1]
             /\ ret.chapters[1].title = "End Credits"
        ELSE ret.chapters = <<>>

\* C12 witness: runtime 114 and endCredits 100 give the chapter 100..114
C12_Witness ==
    /\ RuutuExtracted
    /\ ret.kind = "video"
    /\ args.video_json.runtime = <<114>>
    /\ args.video_json.endCredits = <<100>>
    /\ ret.chapters = <<[start_time |-> 100, end_time |-> 114, title |-> "End Credits"]>>

\* C14: every chapter of every returned video item has start_time < end_time,
\* for all runtime and endCredits values, endCredits equal to or greater
\* than runtime included.
C14_ChapterStartsBeforeEnd ==
    (RuutuExtracted /\ ret.kind = "video") =>
        \A i \in 1..Len(ret.chapters) : ret.chapters[i].start_time < ret.chapters[i].end_time

====
